---- MODULE Spec2Model ----
(***************************************************************************)
(* Crank-angle kinematics and four-stroke phase model of the four program  *)
(* variants of the engine simulation:                                      *)
(*   "engine_sim" : src/src/engine_sim.cpp  (GLFW main loop)               *)
(*   "part_000"   : src/unnamed/part_000    (GLUT, landing page, timer)    *)
(*   "part_001"   : src/unnamed/part_001    (GLUT, landing page, idle)     *)
(*   "part_002"   : src/unnamed/part_002    (GLUT, idle)                   *)
(* One behaviour of the model is one run of one variant; the variant is    *)
(* fixed in the initial state.                                             *)
(*                                                                         *)
(* Units.  Angles are integers in millidegrees (720 degrees = 720000),     *)
(* times are integers in milliseconds.  With these units every product     *)
(* the programs form is exact:                                             *)
(*   rpm * 6 [deg/s] * dt [s]            = rpm * 6 * dtMs   millidegrees   *)
(*   rpm * 360 / 60000 [deg/ms] * dtMs   = rpm * 6 * dtMs   millidegrees   *)
(*   crankSpeedDegPerSec * (dt / 1000.0) = speed * dtMs     millidegrees   *)
(* The float arithmetic of the programs is modelled as exact arithmetic.   *)
(*                                                                         *)
(* Not modelled: the drawing calls, the camera variables, the smoke pool   *)
(* (written only by spawnSmoke/updateSmoke and read only by drawSmoke),    *)
(* the sound, and the Escape key, which ends the run.                      *)
(***************************************************************************)
EXTENDS Integers, Sequences, FiniteSets, TLC

VARIABLES
    variant,              \* which program is running
    crankAngle,           \* stored crank angle, millidegrees
    rpm,                  \* engine_speed_rpm (engine_sim), rpm (part_001, part_002)
    crankSpeedDegPerSec,  \* part_000 speed, degrees per second
    is_running,           \* engine_sim run flag
    appState,             \* part_000 / part_001 page
    elapsed,              \* clock reading minus the stored last-time value, ms
    nowZero,              \* the clock still reads 0
    lastZero,             \* the stored last-time value is 0
    strokes,              \* phase drawn for each cylinder in the current
                          \* frame; none once a redisplay has been posted
    lastTick,             \* history: what the last simulation tick did
    fnIn,                 \* argument of a function applied in isolation
    fnOut,                \* its result
    smoke,                \* part_001/part_002: the pool of smoke particles
    switched              \* history of the last switch to the animation

vars == <<variant, crankAngle, rpm, crankSpeedDegPerSec, is_running, appState,
          elapsed, nowZero, lastZero, strokes, lastTick, fnIn, fnOut,
          smoke, switched>>

Variants == {"engine_sim", "part_000", "part_001", "part_002"}

\* ------------------------------------------------------------------ bounds
\* largest stored angle explored (millidegrees); a tick that would store
\* more is not taken
MaxAngle == 900000
\* largest part_000 speed explored (the 'f' key has no upper limit)
MaxSpeed == 240
\* slots of the smoke pool the model keeps; the program has MAX_SMOKE = 400
PoolSize == 2

\* ------------------------------------------------------- program constants
NUM_CYLINDERS == 4
Cylinders == 0 .. (NUM_CYLINDERS - 1)
\* 720.0f, one four-stroke cycle, in millidegrees
Cycle == 720000
\* one degree in millidegrees
Deg == 1000

\* C fmod / fmodf: the result has the sign of the dividend
fmod(x, m) == IF x >= 0 THEN x % m ELSE -((-x) % m)

\* ------------------------------------------------------------- engine_sim
\* the update with one revolution (360) subtracted instead of one cycle
main_update_360(a, r, dt, run) ==
    IF run
    THEN LET b == a + r * 6 * dt
         IN  IF b >= 360 * Deg THEN b - 360 * Deg ELSE b
    ELSE a

\* main loop, "Update Simulation": a is the angle after processInput,
\* r the speed, dt the frame time, run the flag after processInput
main_update(a, r, dt, run) ==
    IF run
    THEN LET b == a + r * 6 * dt
         IN  IF b >= Cycle THEN b - Cycle ELSE b
    ELSE a

\* processInput with R handled before Space: Space pressed in the same
\* frame starts the engine again after the reset
processInput_resetFirst(space, r, a, run) ==
    LET a1   == IF r THEN 0 ELSE a
        run1 == IF r THEN FALSE ELSE run
    IN  [angle |-> a1, running |-> IF space THEN ~run1 ELSE run1]

\* processInput: Space toggles is_running, then R resets angle and flag
processInput(space, r, a, run) ==
    LET run1 == IF space THEN ~run ELSE run
    IN  IF r THEN [angle |-> 0, running |-> FALSE]
             ELSE [angle |-> a, running |-> run1]

\* the offsets assigned in index order
phase_offset_index(cylinder_index) == cylinder_index * 180 * Deg

\* get_stroke_name: the offset of a cylinder index
phase_offset(cylinder_index) ==
    CASE cylinder_index = 1 -> 540 * Deg
      [] cylinder_index = 2 -> 180 * Deg
      [] cylinder_index = 3 -> 360 * Deg
      [] OTHER              -> 0

\* get_stroke_name: the effective angle of crank angle plus offset
effective_angle_of(sum) == fmod(sum, Cycle)

\* get_stroke_name with the boundary values given to the earlier phase
get_stroke_name_sum_closed(sum) ==
    LET effective_angle == effective_angle_of(sum)
    IN  IF effective_angle >= 0 /\ effective_angle <= 180 * Deg THEN "INTAKE"
        ELSE IF effective_angle > 180 * Deg /\ effective_angle <= 360 * Deg
             THEN "COMPRESSION"
        ELSE IF effective_angle > 360 * Deg /\ effective_angle <= 540 * Deg
             THEN "POWER/COMBUSTION"
        ELSE "EXHAUST"

\* get_stroke_name: classification of crank angle plus offset
get_stroke_name_sum(sum) ==
    LET effective_angle == effective_angle_of(sum)
    IN  IF effective_angle >= 0 /\ effective_angle < 180 * Deg THEN "INTAKE"
        ELSE IF effective_angle >= 180 * Deg /\ effective_angle < 360 * Deg
             THEN "COMPRESSION"
        ELSE IF effective_angle >= 360 * Deg /\ effective_angle < 540 * Deg
             THEN "POWER/COMBUSTION"
        ELSE "EXHAUST"

\* get_stroke_name with the offset subtracted
get_stroke_name_minus(cylinder_index, a) ==
    get_stroke_name_sum(a - phase_offset(cylinder_index))

get_stroke_name(cylinder_index, a) ==
    get_stroke_name_sum(a + phase_offset(cylinder_index))

\* --------------------------------------------------------------- part_000
\* the timer advancing by the start-up speed, whatever the speed variable
timer_update_fixed(a, s, dt) ==
    LET b == a + 90 * dt
    IN  IF b > Cycle THEN fmod(b, Cycle) ELSE b

\* timer: advance and wrap; s in degrees per second, dt in ms
timer_update(a, s, dt) ==
    LET b == a + s * dt
    IN  IF b > Cycle THEN fmod(b, Cycle) ELSE b

\* display: phaseOffset = i * 180.0f
phaseOffset(i) == i * 180 * Deg

\* getPhaseKindForCylinder: the wrapped angle a
wrappedAngle(angleDeg, phaseOffsetDeg) ==
    LET a0 == fmod(angleDeg + phaseOffsetDeg, Cycle)
    IN  IF a0 < 0 THEN a0 + Cycle ELSE a0

getPhaseKindForCylinder(angleDeg, phaseOffsetDeg) ==
    LET a == wrappedAngle(angleDeg, phaseOffsetDeg)
    IN  IF a < 180 * Deg THEN 0
        ELSE IF a < 360 * Deg THEN 1
        ELSE IF a < 540 * Deg THEN 2
        ELSE 3

\* drawCombustionEffect: what the kinds 0..3 stand for
kindName(kind) ==
    CASE kind = 0 -> "INTAKE"
      [] kind = 1 -> "COMPRESSION"
      [] kind = 2 -> "POWER"
      [] OTHER    -> "EXHAUST"

\* the keyboard with Space only pausing: a stopped engine stays stopped
keyboard_toggle_pauseOnly(s) ==
    IF s > 1 THEN 0 ELSE 0

\* keyboard, animation state: the speed after Space
keyboard_toggle(s) ==
    IF s > 1 THEN 0 ELSE 120

\* the keyboard with 's' subtracting 30 without std::max
keyboard_speed_noMax(key, s) ==
    CASE key = " " -> keyboard_toggle(s)
      [] key = "f" -> s + 30
      [] key = "s" -> s - 30
      [] OTHER     -> s

\* keyboard, animation state: the speed after a key
keyboard_speed(key, s) ==
    CASE key = " " -> keyboard_toggle(s)
      [] key = "f" -> s + 30
      [] key = "s" -> (IF s - 30 > 0 THEN s - 30 ELSE 0)
      [] OTHER     -> s

\* ---------------------------------------------------- part_001 / part_002
\* idle with one revolution (360) subtracted instead of one cycle
idle_update_360(a, r, dtMs) ==
    LET b == a + r * 6 * dtMs
    IN  IF b >= 360 * Deg THEN b - 360 * Deg ELSE b

\* idle: degPerMs * dtMs added, one cycle subtracted
idle_update(a, r, dtMs) ==
    LET b == a + r * 6 * dtMs
    IN  IF b >= Cycle THEN b - Cycle ELSE b

\* the offsets of two pairs of cylinders moving together
cylPhase_pairs(i) == <<0, 180 * Deg, 180 * Deg, 0>>[i + 1]

cylPhase(i) == <<0, 180 * Deg, 360 * Deg, 540 * Deg>>[i + 1]

\* getValveStates with the intake range closed at 180: the intake valve is
\* still lifted at the first angle of the compression stroke
getValveStates_closed(angleDeg) ==
    LET a == fmod(angleDeg, Cycle)
    IN  [intakeLift  |-> IF a <= 180 * Deg THEN 1 ELSE 0,
         exhaustLift |-> IF a >= 540 * Deg THEN 1 ELSE 0]

\* getValveStates: intake open for [0, 180), exhaust open from 540 on
getValveStates(angleDeg) ==
    LET a == fmod(angleDeg, Cycle)
    IN  [intakeLift  |-> IF a < 180 * Deg THEN 1 ELSE 0,
         exhaustLift |-> IF a >= 540 * Deg THEN 1 ELSE 0]

\* display: the flame is drawn for phase in [360, 540)
flameDrawn(localAngle) ==
    LET phase == fmod(localAngle, Cycle)
    IN  phase >= 360 * Deg /\ phase < 540 * Deg

\* idle: smoke is spawned for phase in [540, 720)
exhaustSmoke(localAngle) ==
    LET phase == fmod(localAngle, Cycle)
    IN  phase >= 540 * Deg /\ phase < 720 * Deg

\* ------------------------------------------------------------ smoke pool
\* A particle is its active flag and its life; life 1.0f is LifeUnit, so
\* that dt * 0.35f is an exact integer for dt in ms.  Position and velocity
\* of a particle are random floats that only drawSmoke reads; they are not
\* kept.
LifeUnit == 1000000
Slots == 1 .. PoolSize

\* the zero-initialised global array
NoSmoke == [i \in Slots |-> [active |-> FALSE, life |-> 0]]

\* spawnSmoke that recycles slot 1 when no slot is free
spawnSmoke_recycle(pool) ==
    IF \E i \in Slots : ~pool[i].active
    THEN LET i == CHOOSE j \in Slots :
                      /\ ~pool[j].active
                      /\ \A k \in Slots : k < j => pool[k].active
         IN  [pool EXCEPT ![i] = [active |-> TRUE, life |-> LifeUnit]]
    ELSE [pool EXCEPT ![1] = [active |-> TRUE, life |-> LifeUnit]]

\* spawnSmoke: the first inactive slot becomes active with life 1.0f; a
\* full pool is left as it is
spawnSmoke(pool) ==
    IF \E i \in Slots : ~pool[i].active
    THEN LET i == CHOOSE j \in Slots :
                      /\ ~pool[j].active
                      /\ \A k \in Slots : k < j => pool[k].active
         IN  [pool EXCEPT ![i] = [active |-> TRUE, life |-> LifeUnit]]
    ELSE pool

\* updateSmoke that keeps a particle as it is instead of letting its life
\* reach 0
updateSmoke_keepLast(pool, dtMs) ==
    [i \in Slots |->
        IF ~pool[i].active THEN pool[i]
        ELSE LET l == pool[i].life - dtMs * 350
             IN  IF l > 0 THEN [active |-> TRUE, life |-> l] ELSE pool[i]]

\* updateSmoke: every active particle loses dt * 0.35 of life and becomes
\* inactive when its life is 0 or less
updateSmoke(pool, dtMs) ==
    [i \in Slots |->
        IF ~pool[i].active THEN pool[i]
        ELSE LET l == pool[i].life - dtMs * 350
             IN  [active |-> l > 0, life |-> l]]

\* the stroke a cylinder is shown in by display: valves and flame
displayStroke(localAngle) ==
    LET v == getValveStates(localAngle)
    IN  IF v.intakeLift = 1 THEN "INTAKE"
        ELSE IF v.exhaustLift = 1 THEN "EXHAUST"
        ELSE IF flameDrawn(localAngle) THEN "POWER"
        ELSE "COMPRESSION"

\* the keyboard without the lower clamp of 'z'
keyboard_rpm_noFloor(key, r) ==
    CASE key = "z" -> r - 40
      [] key = "x" -> (IF r + 40 > 3500 THEN 3500 ELSE r + 40)
      [] key = "1" -> 150
      [] key = "2" -> 400
      [] key = "3" -> 900
      [] OTHER     -> r

\* keyboard: the rpm after a key
keyboard_rpm(key, r) ==
    CASE key = "z" -> (IF r - 40 < 80 THEN 80 ELSE r - 40)
      [] key = "x" -> (IF r + 40 > 3500 THEN 3500 ELSE r + 40)
      [] key = "1" -> 150
      [] key = "2" -> 400
      [] key = "3" -> 900
      [] OTHER     -> r

\* ------------------------------------------------------------ all variants
Phases == <<"INTAKE", "COMPRESSION", "POWER", "EXHAUST">>

\* the offset the variant gives cylinder i
OffsetOf(v, i) ==
    IF v = "engine_sim" THEN phase_offset(i)
    ELSE IF v = "part_000" THEN phaseOffset(i)
    ELSE cylPhase(i)

\* the stroke phase the variant computes for crank angle plus offset
StrokeOfSum(v, sum) ==
    IF v = "engine_sim"
    THEN LET n == get_stroke_name_sum(sum)
         IN  IF n = "POWER/COMBUSTION" THEN "POWER" ELSE n
    ELSE IF v = "part_000" THEN kindName(getPhaseKindForCylinder(sum, 0))
    ELSE displayStroke(sum)

StrokeOf(v, i, a) ==
    IF v = "engine_sim"
    THEN LET n == get_stroke_name(i, a)
         IN  IF n = "POWER/COMBUSTION" THEN "POWER" ELSE n
    ELSE IF v = "part_000"
    THEN kindName(getPhaseKindForCylinder(a, phaseOffset(i)))
    ELSE displayStroke(a + cylPhase(i))

\* the angle the variant's running tick stores: a the old angle, speed the
\* variant's speed variable, dt the elapsed time in ms
TickAngle(v, a, speed, dt) ==
    IF v = "engine_sim" THEN main_update(a, speed, dt, TRUE)
    ELSE IF v = "part_000" THEN timer_update(a, speed, dt)
    ELSE idle_update(a, speed, dt)

\* the wrap the variant's tick applies to the advanced angle x
TickWrap(v, x) == TickAngle(v, x, 0, 0)

\* the wrap the variant applies to crank angle plus offset before it
\* classifies the stroke
PhaseWrap(v, x) ==
    IF v = "engine_sim" THEN effective_angle_of(x)
    ELSE IF v = "part_000" THEN wrappedAngle(x, 0)
    ELSE fmod(x, Cycle)

\* ------------------------------------------------------------ environment
\* clock readings (ms since the stored last-time value) a run passes through
ElapsedValues(v) ==
    IF v = "engine_sim" THEN {5, 10, 30, 125, 250}
    ELSE IF v = "part_000" THEN {500, 1000, 2000, 6000}
    ELSE {250}

KeysPart000 == {"\r", "\n", " ", "f", "s", "m", "M", "other"}
KeysPart001 == {"\r", " ", "s", "S", "z", "x", "1", "2", "3", "other"}
KeysPart002 == {"z", "x", "1", "2", "3", "other"}

NoStrokes == [i \in Cylinders |-> "none"]

\* no function has been applied in isolation
NoResult == [op |-> "none", angle |-> 0, stroke |-> "none"]

\* history of a tick that advanced the angle from a by step in dt ms:
\* whether time or angle stood still, and for a step of at most 180 degrees
\* the stroke cylinder 0 was in before
NoTick == [kind |-> "none", from |-> "none"]
\* a frame that saw R pressed: the stroke of cylinder 0 before the reset
ResetTick(v, a) == [kind |-> "reset", from |-> StrokeOf(v, 0, a)]
TickRecord(v, a, dt, step) ==
    IF dt = 0 THEN [kind |-> "dt0", from |-> "none"]
    ELSE IF step = 0 THEN [kind |-> "still", from |-> "none"]
    ELSE IF step <= 180 * Deg THEN [kind |-> "small", from |-> StrokeOf(v, 0, a)]
    ELSE [kind |-> "large", from |-> "none"]

\* history of a switch from the landing page to the animation: since is
\* the time (ms) that has passed since the switch, while the first tick
\* after it is still to come; stale says that the stored last-time value
\* was behind the clock when the switch was made; first is the elapsed time
\* the first tick after the switch used
NoSwitch == [since |-> -1, stale |-> FALSE, first |-> -1]
SwitchNow == [since |-> 0, stale |-> elapsed > 0, first |-> -1]
\* the clock moves on by d ms
SwitchClock(d) ==
    IF switched.since < 0 THEN switched
    ELSE [switched EXCEPT !.since = switched.since + d]
\* a key pressed in the animation: the record of a first tick is dropped
SwitchKey == IF switched.since < 0 THEN NoSwitch ELSE switched
\* a running tick that uses the elapsed time dt
SwitchTick(dt) ==
    IF switched.since < 0 THEN NoSwitch
    ELSE [switched EXCEPT !.since = -1, !.first = dt]

\* ------------------------------------------------------------------- Init
Init ==
    /\ variant \in Variants
    /\ crankAngle = 0
    /\ rpm = (IF variant = "engine_sim" THEN 1000 ELSE 250)
    /\ crankSpeedDegPerSec = 90
    /\ is_running = FALSE
    /\ appState = (IF variant = "part_000" THEN "LANDING"
                   ELSE IF variant = "part_001" THEN "STATE_LANDING"
                   ELSE "STATE_ENGINE")
    /\ elapsed = 0
    /\ nowZero \in (IF variant = "part_000" THEN BOOLEAN ELSE {TRUE})
    /\ lastZero = nowZero
    /\ strokes = NoStrokes
    /\ lastTick = NoTick
    /\ fnIn = 0
    /\ fnOut = NoResult
    /\ smoke = NoSmoke
    /\ switched = NoSwitch

\* ------------------------------------------------------------------ clock
\* real time passes between two callbacks
Clock ==
    /\ \E e \in ElapsedValues(variant) :
          /\ e > elapsed
          /\ elapsed' = e
          /\ switched' = SwitchClock(e - elapsed)
    /\ nowZero' = FALSE
    /\ UNCHANGED <<variant, crankAngle, rpm, crankSpeedDegPerSec, is_running,
                   appState, lastZero, strokes, lastTick,
                   fnIn, fnOut, smoke>>

\* ------------------------------------------------------------- engine_sim
\* the iteration with render_scene called before the update: the cylinders
\* are drawn from the angle the update has not advanced yet
MainLoopFrame_renderFirst(space, r) ==
    /\ variant = "engine_sim"
    /\ LET delta_time == elapsed
           in == processInput(space, r, crankAngle, is_running)
           a  == main_update(in.angle, rpm, delta_time, in.running)
       IN  /\ a <= MaxAngle
           /\ crankAngle' = a
           /\ is_running' = in.running
           /\ strokes' = [i \in Cylinders |-> StrokeOf(variant, i, in.angle)]
           /\ lastTick' = IF in.running
                          THEN TickRecord(variant, in.angle, delta_time,
                                          rpm * 6 * delta_time)
                          ELSE IF r THEN ResetTick(variant, crankAngle)
                          ELSE lastTick
    /\ elapsed' = 0
    /\ UNCHANGED <<variant, rpm, crankSpeedDegPerSec, appState, nowZero,
                   lastZero, fnIn, fnOut, smoke, switched>>

\* one iteration of the render loop: timing, processInput, update, render
MainLoopFrame(space, r) ==
    /\ variant = "engine_sim"
    /\ LET delta_time == elapsed
           in == processInput(space, r, crankAngle, is_running)
           a  == main_update(in.angle, rpm, delta_time, in.running)
       IN  /\ a <= MaxAngle
           /\ crankAngle' = a
           /\ is_running' = in.running
           /\ strokes' = [i \in Cylinders |-> StrokeOf(variant, i, a)]
           /\ lastTick' = IF in.running
                          THEN TickRecord(variant, in.angle, delta_time,
                                          rpm * 6 * delta_time)
                          ELSE IF r THEN ResetTick(variant, crankAngle)
                          ELSE lastTick
    /\ elapsed' = 0
    /\ UNCHANGED <<variant, rpm, crankSpeedDegPerSec, appState, nowZero,
                   lastZero, fnIn, fnOut, smoke, switched>>

\* In the GLUT variants glutPostRedisplay() makes the frame on screen
\* out of date: strokes becomes NoStrokes until display draws again.

\* --------------------------------------------------------------- part_000
\* the keyboard with Space starting the animation too, as in part_001
keyboard_appState_spaceStarts(key, st) ==
    IF st = "LANDING"
    THEN (IF key \in {"\r", "\n", " "} THEN "ANIMATION" ELSE st)
    ELSE (IF key \in {"m", "M"} THEN "LANDING" ELSE st)

\* keyboard: the app state after a key; key 13 and key 10 are Enter
keyboard_appState(key, st) ==
    IF st = "LANDING"
    THEN (IF key \in {"\r", "\n"} THEN "ANIMATION" ELSE st)
    ELSE (IF key \in {"m", "M"} THEN "LANDING" ELSE st)

keyboard000(key) ==
    /\ variant = "part_000"
    /\ appState' = keyboard_appState(key, appState)
    /\ IF appState = "LANDING"
       THEN IF appState' = "ANIMATION"
            THEN /\ elapsed' = 0
                 /\ lastZero' = nowZero
                 /\ strokes' = NoStrokes
                 /\ switched' = SwitchNow
                 /\ UNCHANGED crankSpeedDegPerSec
            ELSE UNCHANGED <<elapsed, lastZero, strokes,
                             crankSpeedDegPerSec, switched>>
       ELSE /\ keyboard_speed(key, crankSpeedDegPerSec) <= MaxSpeed
            /\ crankSpeedDegPerSec' = keyboard_speed(key, crankSpeedDegPerSec)
            /\ strokes' = (IF appState' = "LANDING" THEN NoStrokes ELSE strokes)
            /\ switched' = (IF appState' = "LANDING" THEN NoSwitch ELSE SwitchKey)
            /\ UNCHANGED <<elapsed, lastZero>>
    /\ UNCHANGED <<variant, crankAngle, rpm, is_running, nowZero, lastTick,
                   fnIn, fnOut, smoke>>

\* the click on Start without lastTime = glutGet(GLUT_ELAPSED_TIME)
mouseClick_noStamp(leftDown, inside) ==
    /\ variant = "part_000"
    /\ IF appState = "LANDING" /\ leftDown /\ inside
       THEN /\ appState' = "ANIMATION"
            /\ strokes' = NoStrokes
            /\ switched' = SwitchNow
            /\ UNCHANGED <<elapsed, lastZero>>
       ELSE UNCHANGED <<appState, elapsed, lastZero, strokes, switched>>
    /\ UNCHANGED <<variant, crankAngle, rpm, crankSpeedDegPerSec, is_running,
                   nowZero, lastTick, fnIn, fnOut, smoke>>

\* leftDown: left button pressed; inside: the point is in the Start button
mouseClick(leftDown, inside) ==
    /\ variant = "part_000"
    /\ IF appState = "LANDING" /\ leftDown /\ inside
       THEN /\ appState' = "ANIMATION"
            /\ elapsed' = 0
            /\ lastZero' = nowZero
            /\ strokes' = NoStrokes
            /\ switched' = SwitchNow
       ELSE UNCHANGED <<appState, elapsed, lastZero, strokes, switched>>
    /\ UNCHANGED <<variant, crankAngle, rpm, crankSpeedDegPerSec, is_running,
                   nowZero, lastTick, fnIn, fnOut, smoke>>

\* the elapsed time a GLUT tick computes: lastTime == 0 is replaced by now
TickDt == IF lastZero THEN 0 ELSE elapsed

\* the timer without the test of appState: the angle advances on the
\* landing page too
timer_anyState ==
    /\ variant = "part_000"
    /\ timer_update(crankAngle, crankSpeedDegPerSec, TickDt) <= MaxAngle
    /\ crankAngle' = timer_update(crankAngle, crankSpeedDegPerSec, TickDt)
    /\ lastTick' = TickRecord(variant, crankAngle, TickDt,
                               crankSpeedDegPerSec * TickDt)
    /\ elapsed' = 0
    /\ lastZero' = nowZero
    /\ strokes' = NoStrokes
    /\ switched' = SwitchTick(TickDt)
    /\ UNCHANGED <<variant, rpm, crankSpeedDegPerSec, is_running, appState,
                   nowZero, fnIn, fnOut, smoke>>

timer ==
    /\ variant = "part_000"
    /\ IF appState = "ANIMATION"
       THEN /\ timer_update(crankAngle, crankSpeedDegPerSec, TickDt) <= MaxAngle
            /\ crankAngle' = timer_update(crankAngle, crankSpeedDegPerSec, TickDt)
            /\ lastTick' = TickRecord(variant, crankAngle, TickDt,
                                       crankSpeedDegPerSec * TickDt)
            /\ elapsed' = 0
            /\ lastZero' = nowZero
            /\ strokes' = NoStrokes
            /\ switched' = SwitchTick(TickDt)
       ELSE UNCHANGED <<crankAngle, lastTick, elapsed, lastZero, strokes,
                        switched>>
    /\ UNCHANGED <<variant, rpm, crankSpeedDegPerSec, is_running, appState,
                   nowZero, fnIn, fnOut, smoke>>

display000 ==
    /\ variant = "part_000"
    /\ IF appState = "LANDING"
       THEN UNCHANGED strokes
       ELSE strokes' = [i \in Cylinders |-> StrokeOf(variant, i, crankAngle)]
    /\ UNCHANGED <<variant, crankAngle, rpm, crankSpeedDegPerSec, is_running,
                   appState, elapsed, nowZero, lastZero, lastTick,
                   fnIn, fnOut, smoke, switched>>

\* ---------------------------------------------------- part_001 / part_002
\* startEngineSimulation without the early return: every call stamps the
\* clock again
startEngineSimulation_restart ==
    /\ appState' = "STATE_ENGINE"
    /\ elapsed' = 0
    /\ lastZero' = nowZero
    /\ switched' = SwitchNow

\* part_001 startEngineSimulation, as a change of (appState, elapsed,
\* lastZero) and of the history of the switch
startEngineSimulation ==
    IF appState = "STATE_ENGINE"
    THEN UNCHANGED <<appState, elapsed, lastZero, switched>>
    ELSE /\ appState' = "STATE_ENGINE"
         /\ elapsed' = 0
         /\ lastZero' = nowZero
         /\ switched' = SwitchNow

keyboard001(key) ==
    /\ variant = "part_001"
    /\ IF appState = "STATE_LANDING"
       THEN /\ IF key \in {"\r", " ", "s", "S"}
               THEN startEngineSimulation
               ELSE UNCHANGED <<appState, elapsed, lastZero, switched>>
            /\ UNCHANGED rpm
       ELSE /\ rpm' = keyboard_rpm(key, rpm)
            /\ switched' = SwitchKey
            /\ UNCHANGED <<appState, elapsed, lastZero>>
    /\ UNCHANGED <<variant, crankAngle, crankSpeedDegPerSec, is_running,
                   nowZero, strokes, lastTick,
                   fnIn, fnOut, smoke>>

mouse001(leftDown, inside) ==
    /\ variant = "part_001"
    /\ IF appState = "STATE_LANDING" /\ leftDown /\ inside
       THEN startEngineSimulation
       ELSE UNCHANGED <<appState, elapsed, lastZero, switched>>
    /\ UNCHANGED <<variant, crankAngle, rpm, crankSpeedDegPerSec, is_running,
                   nowZero, strokes, lastTick,
                   fnIn, fnOut, smoke>>

keyboard002(key) ==
    /\ variant = "part_002"
    /\ rpm' = keyboard_rpm(key, rpm)
    /\ UNCHANGED <<variant, crankAngle, crankSpeedDegPerSec, is_running,
                   appState, elapsed, nowZero, lastZero, strokes, lastTick,
                   fnIn, fnOut, smoke, switched>>

\* idle, the loop "Spawn smoke from cylinders in exhaust stroke" from
\* cylinder i on: draws is the set of cylinders for which rand() gives
\* r < spawnChance
RECURSIVE spawnLoop(_, _, _, _)
spawnLoop(pool, a, draws, i) ==
    IF i = NUM_CYLINDERS THEN pool
    ELSE spawnLoop(IF exhaustSmoke(a + cylPhase(i)) /\ i \in draws
                   THEN spawnSmoke(pool) ELSE pool,
                   a, draws, i + 1)

\* idle with a spawned particle loading the engine: rpm drops by 40 in a
\* tick that spawns smoke
idleFrame_feedback(draws) ==
    /\ variant \in {"part_001", "part_002"}
    /\ IF appState = "STATE_ENGINE"
       THEN LET a == idle_update(crankAngle, rpm, TickDt)
                spawned == spawnLoop(smoke, a, draws, 0)
            IN  /\ a <= MaxAngle
                /\ crankAngle' = a
                /\ lastTick' = TickRecord(variant, crankAngle, TickDt,
                                           rpm * 6 * TickDt)
                /\ smoke' = updateSmoke(spawned, TickDt)
                /\ switched' = SwitchTick(TickDt)
                /\ rpm' = (IF spawned # smoke THEN rpm - 40 ELSE rpm)
       ELSE UNCHANGED <<crankAngle, lastTick, smoke, rpm, switched>>
    /\ elapsed' = 0
    /\ lastZero' = nowZero
    /\ strokes' = NoStrokes
    /\ UNCHANGED <<variant, crankSpeedDegPerSec, is_running, appState,
                   nowZero, fnIn, fnOut>>

\* idle of part_001 and part_002: time, crank angle, smoke spawn for the
\* cylinders in draws, smoke update, glutPostRedisplay
idleFrame(draws) ==
    /\ variant \in {"part_001", "part_002"}
    /\ IF appState = "STATE_ENGINE"
       THEN LET a == idle_update(crankAngle, rpm, TickDt)
            IN  /\ a <= MaxAngle
                /\ crankAngle' = a
                /\ lastTick' = TickRecord(variant, crankAngle, TickDt,
                                           rpm * 6 * TickDt)
                /\ smoke' = updateSmoke(spawnLoop(smoke, a, draws, 0), TickDt)
                /\ switched' = SwitchTick(TickDt)
       ELSE UNCHANGED <<crankAngle, lastTick, smoke, switched>>
    /\ elapsed' = 0
    /\ lastZero' = nowZero
    /\ strokes' = NoStrokes
    /\ UNCHANGED <<variant, rpm, crankSpeedDegPerSec, is_running, appState,
                   nowZero, fnIn, fnOut>>

\* idle in a run in which rand() never gives r < spawnChance: no particle
\* is spawned and the pool stays empty
idle == idleFrame({})

\* the cylinders the spawn loop calls rand() for at crank angle a
inExhaust(a) == {i \in Cylinders : exhaustSmoke(a + cylPhase(i))}

\* idle with any outcome of rand() for each cylinder it is called for
idleSmoke ==
    \E draws \in SUBSET inExhaust(idle_update(crankAngle, rpm, TickDt)) :
        idleFrame(draws)

\* displayWrapper of part_001, display of part_002
display ==
    /\ variant \in {"part_001", "part_002"}
    /\ IF appState = "STATE_LANDING"
       THEN UNCHANGED strokes
       ELSE strokes' = [i \in Cylinders |-> StrokeOf(variant, i, crankAngle)]
    /\ UNCHANGED <<variant, crankAngle, rpm, crankSpeedDegPerSec, is_running,
                   appState, elapsed, nowZero, lastZero, lastTick,
                   fnIn, fnOut, smoke, switched>>

\* ------------------------------------------------------------------- Next
Next ==
    \/ Clock
    \/ \E space, r \in BOOLEAN : MainLoopFrame(space, r)
    \/ \E key \in KeysPart000 : keyboard000(key)
    \/ \E leftDown, inside \in BOOLEAN : mouseClick(leftDown, inside)
    \/ timer
    \/ display000
    \/ \E key \in KeysPart001 : keyboard001(key)
    \/ \E leftDown, inside \in BOOLEAN : mouse001(leftDown, inside)
    \/ \E key \in KeysPart002 : keyboard002(key)
    \/ idle
    \/ display

Spec == Init /\ [][Next]_vars

\* ------------------------------------------- functions applied in isolation
\* angles (millidegrees) the stroke classification and the tick wrap are
\* applied to: the phase boundaries and their neighbours, negative values,
\* values of one and of two cycles and more
FnInputs ==
    {-1440000, -720001, -720000, -719999, -540000, -360000, -180000, -1000, -1,
     0, 1, 90000, 179999, 180000, 180001, 270000, 359999, 360000, 360001,
     450000, 539999, 540000, 540001, 630000, 719999, 720000, 720001, 900000,
     1439999, 1440000, 1440001, 1500000, 2160000}

FnInit ==
    /\ variant \in Variants
    /\ crankAngle = 0
    /\ rpm = (IF variant = "engine_sim" THEN 1000 ELSE 250)
    /\ crankSpeedDegPerSec = 90
    /\ is_running = FALSE
    /\ appState = (IF variant = "part_000" THEN "LANDING"
                   ELSE IF variant = "part_001" THEN "STATE_LANDING"
                   ELSE "STATE_ENGINE")
    /\ elapsed = 0
    /\ nowZero = TRUE
    /\ lastZero = TRUE
    /\ strokes = NoStrokes
    /\ lastTick = NoTick
    /\ fnIn \in FnInputs
    /\ fnOut = NoResult
    /\ smoke = NoSmoke
    /\ switched = NoSwitch

\* the variant's stroke classification applied to fnIn
ApplyStroke ==
    /\ fnOut' = [op |-> "stroke", angle |-> fnIn,
                 stroke |-> StrokeOfSum(variant, fnIn)]
    /\ UNCHANGED <<variant, crankAngle, rpm, crankSpeedDegPerSec, is_running,
                   appState, elapsed, nowZero, lastZero, strokes, lastTick,
                   fnIn, smoke, switched>>

\* the variant's tick wrap applied to fnIn
ApplyTickWrap ==
    /\ fnOut' = [op |-> "wrap", angle |-> TickWrap(variant, fnIn),
                 stroke |-> "none"]
    /\ UNCHANGED <<variant, crankAngle, rpm, crankSpeedDegPerSec, is_running,
                   appState, elapsed, nowZero, lastZero, strokes, lastTick,
                   fnIn, smoke, switched>>

\* the variant's wrap before the stroke classification applied to fnIn
ApplyPhaseWrap ==
    /\ fnOut' = [op |-> "phasewrap", angle |-> PhaseWrap(variant, fnIn),
                 stroke |-> "none"]
    /\ UNCHANGED <<variant, crankAngle, rpm, crankSpeedDegPerSec, is_running,
                   appState, elapsed, nowZero, lastZero, strokes, lastTick,
                   fnIn, smoke, switched>>

FnNext == ApplyStroke \/ ApplyTickWrap \/ ApplyPhaseWrap

SpecFn == FnInit /\ [][FnNext]_vars

\* -------------------------------------------------------- piston geometry
\* Lengths are kept in hundredths of the program's length unit and the
\* values of sin and cos in hundredths, so a piston position is in
\* hundredths * TrigScale.  Angles are on a grid of 15 degrees.
TrigScale == 100

\* cos at 0, 15, 30, ... 345 degrees, in hundredths
CosTable ==
    <<100, 97, 87, 71, 50, 26, 0, -26, -50, -71, -87, -97,
      -100, -97, -87, -71, -50, -26, 0, 26, 50, 71, 87, 97>>

\* std::cos, cosf and std::sin of an angle given in millidegrees
cos(angle) == CosTable[((angle % (360 * Deg)) \div (15 * Deg)) + 1]
sin(angle) == cos(angle - 90 * Deg)

\* std::sqrt: not a number for a negative argument, else the root (rounded
\* down to the unit kept)
NaN == -2147483647
RECURSIVE sqrtSearch(_, _, _)
sqrtSearch(n, lo, hi) ==
    IF lo = hi THEN lo
    ELSE LET mid == (lo + hi + 1) \div 2
         IN  IF mid * mid <= n THEN sqrtSearch(n, mid, hi)
             ELSE sqrtSearch(n, lo, mid - 1)
sqrt(n) == IF n < 0 THEN NaN ELSE sqrtSearch(n, 0, 46340)

\* engine_sim.cpp: R = 0.5f, L = 2.0f
CRANK_RADIUS == 50
CONROD_LENGTH == 200

\* the radicand with R and L exchanged
get_piston_radicand_swapped(angle) ==
    CRANK_RADIUS * CRANK_RADIUS * TrigScale * TrigScale
        - CONROD_LENGTH * CONROD_LENGTH * sin(angle) * sin(angle)

\* get_piston_position: the argument of std::sqrt, 1 - (R/L)^2 * sin^2,
\* times L^2 * TrigScale^2
get_piston_radicand(angle) ==
    CONROD_LENGTH * CONROD_LENGTH * TrigScale * TrigScale
        - CRANK_RADIUS * CRANK_RADIUS * sin(angle) * sin(angle)

\* the position computed from the camshaft angle, half the crank angle
get_piston_position_cam(angle) ==
    LET root == sqrt(get_piston_radicand(angle \div 2))
    IN  IF root = NaN THEN NaN
        ELSE -CRANK_RADIUS * cos(angle \div 2) + root

\* get_piston_position: -R * cos + L * sqrt(1 - (R/L)^2 * sin^2)
get_piston_position(angle) ==
    LET root == sqrt(get_piston_radicand(angle))
    IN  IF root = NaN THEN NaN
        ELSE -CRANK_RADIUS * cos(angle) + root

\* part_000: stroke = 80.0f, crankRadius = stroke / 2, conRodLen = 120.0f
stroke == 8000
crankRadius == stroke \div 2
conRodLen == 12000

\* display: baseTopY + 40.0f with baseTopY = blockTopY - cylinderHeight / 2
\* + 40.0f = 220 - 80 + 40
pistonBaseTopY == 22000

\* pistonPositionForCrank: cosine only, no square root
pistonPositionForCrank(baseTopY, angleDeg, phaseOffsetDeg) ==
    LET a == angleDeg + phaseOffsetDeg
        disp == crankRadius * TrigScale - crankRadius * cos(a)
        smallCOR == (TrigScale - cos(a)) * ((crankRadius * 15) \div 100)
    IN  baseTopY * TrigScale - disp - smallCOR

\* part_001, part_002 getPistonHeight: R = 0.75f, L = 2.4f
getPistonHeight_R == 75
getPistonHeight_L == 240

\* getPistonHeight: the argument of std::sqrt, L*L - R*R*s*s
getPistonHeight_radicand(angleDeg) ==
    getPistonHeight_L * getPistonHeight_L * TrigScale * TrigScale
        - getPistonHeight_R * getPistonHeight_R * sin(angleDeg) * sin(angleDeg)

\* getPistonHeight: y = R*c + sqrt(L*L - R*R*s*s), scaled into 1.5 .. 4.7
getPistonHeight(angleDeg) ==
    LET root == sqrt(getPistonHeight_radicand(angleDeg))
        y    == getPistonHeight_R * cos(angleDeg) + root
        minY == (getPistonHeight_L - getPistonHeight_R) * TrigScale
        maxY == (getPistonHeight_L + getPistonHeight_R) * TrigScale
    IN  IF root = NaN THEN NaN
        ELSE 150 * TrigScale + (320 * TrigScale * (y - minY)) \div (maxY - minY)

\* the variants whose piston position has the square root of the rod-crank
\* formula
RodCrankVariants == {"engine_sim", "part_001", "part_002"}

\* crank radius and rod length of the variant
CrankRadiusOf(v) ==
    IF v = "engine_sim" THEN CRANK_RADIUS
    ELSE IF v = "part_000" THEN crankRadius
    ELSE getPistonHeight_R
RodLengthOf(v) ==
    IF v = "engine_sim" THEN CONROD_LENGTH
    ELSE IF v = "part_000" THEN conRodLen
    ELSE getPistonHeight_L

\* the argument the variant passes to the square root at the angle
RadicandOf(v, angle) ==
    IF v = "engine_sim" THEN get_piston_radicand(angle)
    ELSE getPistonHeight_radicand(angle)

\* the piston position the variant computes for the cylinder of offset 0
PistonOf(v, angle) ==
    IF v = "engine_sim" THEN get_piston_position(angle)
    ELSE IF v = "part_000"
    THEN pistonPositionForCrank(pistonBaseTopY, angle, phaseOffset(0))
    ELSE getPistonHeight(angle + cylPhase(0))

\* angles (millidegrees) the piston position is computed for: every 30
\* degrees from -720 to 1440
GeomInputs == {k * 30 * Deg : k \in -24 .. 48}

GeomInit ==
    /\ variant \in Variants
    /\ crankAngle = 0
    /\ rpm = (IF variant = "engine_sim" THEN 1000 ELSE 250)
    /\ crankSpeedDegPerSec = 90
    /\ is_running = FALSE
    /\ appState = (IF variant = "part_000" THEN "LANDING"
                   ELSE IF variant = "part_001" THEN "STATE_LANDING"
                   ELSE "STATE_ENGINE")
    /\ elapsed = 0
    /\ nowZero = TRUE
    /\ lastZero = TRUE
    /\ strokes = NoStrokes
    /\ lastTick = NoTick
    /\ fnIn \in GeomInputs
    /\ fnOut = NoResult
    /\ smoke = NoSmoke
    /\ switched = NoSwitch

\* the variant's piston position computed for fnIn, with the argument of
\* the square root (0 where the variant has none)
ApplyPiston ==
    /\ fnOut' = [op |-> "piston",
                 position |-> PistonOf(variant, fnIn),
                 radicand |-> IF variant \in RodCrankVariants
                              THEN RadicandOf(variant, fnIn) ELSE 0]
    /\ UNCHANGED <<variant, crankAngle, rpm, crankSpeedDegPerSec, is_running,
                   appState, elapsed, nowZero, lastZero, strokes, lastTick,
                   fnIn, smoke, switched>>

GeomNext == ApplyPiston

SpecGeom == GeomInit /\ [][GeomNext]_vars

\* ------------------------------------------------ one tick in isolation
\* angles (millidegrees), speeds (rpm) and elapsed times (ms) one running
\* tick is applied to
AdvanceAngles == {0, 180 * Deg, 360 * Deg, 540 * Deg, 700 * Deg}
AdvanceRpms   == {0, 80, 250, 600, 1000, 3500}
AdvanceDts    == {0, 16, 100, 250}

AdvanceInit ==
    /\ variant \in Variants
    /\ crankAngle = 0
    /\ rpm = (IF variant = "engine_sim" THEN 1000 ELSE 250)
    /\ crankSpeedDegPerSec = 90
    /\ is_running = FALSE
    /\ appState = (IF variant = "part_000" THEN "LANDING"
                   ELSE IF variant = "part_001" THEN "STATE_LANDING"
                   ELSE "STATE_ENGINE")
    /\ elapsed = 0
    /\ nowZero = TRUE
    /\ lastZero = TRUE
    /\ strokes = NoStrokes
    /\ lastTick = NoTick
    /\ fnIn \in [angle : AdvanceAngles, rpm : AdvanceRpms, dt : AdvanceDts]
    /\ fnOut = NoResult
    /\ smoke = NoSmoke
    /\ switched = NoSwitch

\* the speed variable of the variant for a crank speed of r rpm: part_000
\* keeps degrees per second
SpeedOfRpm(v, r) == IF v = "part_000" THEN r * 6 ELSE r

\* the variant's running tick applied to fnIn, and the stroke the cylinder
\* of offset 0 is in at the stored angle
ApplyAdvance ==
    /\ LET a == TickAngle(variant, fnIn.angle,
                          SpeedOfRpm(variant, fnIn.rpm), fnIn.dt)
       IN  fnOut' = [op |-> "advance", angle |-> a,
                     stroke |-> StrokeOf(variant, 0, a)]
    /\ UNCHANGED <<variant, crankAngle, rpm, crankSpeedDegPerSec, is_running,
                   appState, elapsed, nowZero, lastZero, strokes, lastTick,
                   fnIn, smoke, switched>>

AdvanceNext == ApplyAdvance

SpecAdvance == AdvanceInit /\ [][AdvanceNext]_vars

\* ------------------------------------------- the engine view with its smoke
\* part_001 and part_002 with every outcome of rand() in idle; the rpm keys
\* are left to Spec
KeysSmoke == {"\r"}

\* clock readings (ms since the stored last-time value) between two idle
\* callbacks of this run
ElapsedSmoke == {500}

SmokeClock ==
    /\ \E e \in ElapsedSmoke :
          /\ e > elapsed
          /\ elapsed' = e
          /\ switched' = SwitchClock(e - elapsed)
    /\ nowZero' = FALSE
    /\ UNCHANGED <<variant, crankAngle, rpm, crankSpeedDegPerSec, is_running,
                   appState, lastZero, strokes, lastTick,
                   fnIn, fnOut, smoke>>

SmokeInit ==
    /\ variant \in {"part_001", "part_002"}
    /\ crankAngle = 0
    /\ rpm = 250
    /\ crankSpeedDegPerSec = 90
    /\ is_running = FALSE
    /\ appState = (IF variant = "part_001" THEN "STATE_LANDING"
                   ELSE "STATE_ENGINE")
    /\ elapsed = 0
    /\ nowZero = TRUE
    /\ lastZero = TRUE
    /\ strokes = NoStrokes
    /\ lastTick = NoTick
    /\ fnIn = 0
    /\ fnOut = NoResult
    /\ smoke = NoSmoke
    /\ switched = NoSwitch

SmokeNext ==
    \/ SmokeClock
    \/ \E key \in KeysSmoke : keyboard001(key)
    \/ idleSmoke
    \/ display

SpecSmoke == SmokeInit /\ [][SmokeNext]_vars

\* ---------------------------------------------- the smoke pool in isolation
\* any sequence of spawnSmoke and updateSmoke calls on the pool of part_001
\* and part_002; fnOut keeps the call and the pool it was made on
PoolDts == {0, 250, 500}

PoolInit ==
    /\ variant \in {"part_001", "part_002"}
    /\ crankAngle = 0
    /\ rpm = 250
    /\ crankSpeedDegPerSec = 90
    /\ is_running = FALSE
    /\ appState = "STATE_ENGINE"
    /\ elapsed = 0
    /\ nowZero = TRUE
    /\ lastZero = TRUE
    /\ strokes = NoStrokes
    /\ lastTick = NoTick
    /\ fnIn = 0
    /\ fnOut = [op |-> "none", before |-> NoSmoke, dt |-> 0]
    /\ smoke = NoSmoke
    /\ switched = NoSwitch

CallSpawnSmoke ==
    /\ smoke' = spawnSmoke(smoke)
    /\ fnOut' = [op |-> "spawn", before |-> smoke, dt |-> 0]
    /\ UNCHANGED <<variant, crankAngle, rpm, crankSpeedDegPerSec, is_running,
                   appState, elapsed, nowZero, lastZero, strokes, lastTick,
                   fnIn, switched>>

CallUpdateSmoke(dtMs) ==
    /\ smoke' = updateSmoke(smoke, dtMs)
    /\ fnOut' = [op |-> "update", before |-> smoke, dt |-> dtMs]
    /\ UNCHANGED <<variant, crankAngle, rpm, crankSpeedDegPerSec, is_running,
                   appState, elapsed, nowZero, lastZero, strokes, lastTick,
                   fnIn, switched>>

\* an update after time has passed
UpdateAfterTime == \E dtMs \in PoolDts : dtMs > 0 /\ CallUpdateSmoke(dtMs)

PoolNext ==
    \/ CallSpawnSmoke
    \/ \E dtMs \in PoolDts : CallUpdateSmoke(dtMs)

SpecPool == PoolInit /\ [][PoolNext]_vars

\* idle runs again and again while the engine view is shown, and the clock
\* of glutGet advances: updates with dt > 0 keep coming
SpecPoolFair == SpecPool /\ WF_vars(UpdateAfterTime)

\* ------------------------------------------------- vocabulary of the claims
\* reduction modulo 720 degrees into [0, 720)
Wrap720(x) == x % Cycle

\* the speed variable of the running variant
Speed == IF variant = "part_000" THEN crankSpeedDegPerSec ELSE rpm

\* the elapsed time the next tick uses, ms
FrameDt == IF variant = "engine_sim" THEN elapsed ELSE TickDt

\* the angle the next tick adds, millidegrees: rpm * 6 * dt, and in part_000
\* degrees per second * dt
TickStep ==
    IF variant = "part_000" THEN crankSpeedDegPerSec * FrameDt
    ELSE rpm * 6 * FrameDt

\* a step that is a tick of the running simulation
RunningTick ==
    \/ \E space, r \in BOOLEAN : MainLoopFrame(space, r) /\ is_running'
    \/ timer /\ appState = "ANIMATION"
    \/ idle /\ appState = "STATE_ENGINE"

\* the phase after p in the four-stroke cycle
NextPhase(p) ==
    CASE p = "INTAKE"      -> "COMPRESSION"
      [] p = "COMPRESSION" -> "POWER"
      [] p = "POWER"       -> "EXHAUST"
      [] OTHER             -> "INTAKE"

FiringOrderOffsets == <<0, 540 * Deg, 180 * Deg, 360 * Deg>>
IndexOrderOffsets  == <<0, 180 * Deg, 360 * Deg, 540 * Deg>>
FiringOrderPhases  == <<"INTAKE", "EXHAUST", "COMPRESSION", "POWER">>
IndexOrderPhases   == <<"INTAKE", "COMPRESSION", "POWER", "EXHAUST">>

\* ----------------------------------------------------------------- claims

\* C1: after every simulation tick, in every variant, the stored crank angle
\* satisfies 0 <= crankAngle < 720 degrees.
C1_AngleInRange == 0 <= crankAngle /\ crankAngle < Cycle

\* C2: a running tick from an angle in [0, 720) with speed rpm and elapsed
\* time dt stores wrap720(oldAngle + rpm * 6 * dt), also for steps of 720
\* degrees or more.
C2_TickIsWrap720 ==
    [][(RunningTick /\ 0 <= crankAngle /\ crankAngle < Cycle)
         => crankAngle' = Wrap720(crankAngle + TickStep)]_vars

\* C3: for every effective angle a in [0, 720) the stroke classification
\* returns INTAKE on [0,180), COMPRESSION on [180,360), POWER on [360,540)
\* and EXHAUST on [540,720); 180, 360 and 540 belong to the later phase.
C3_StrokePartition ==
    (fnOut.op = "stroke" /\ 0 <= fnIn /\ fnIn < Cycle)
        => fnOut.stroke = Phases[(fnIn \div (180 * Deg)) + 1]

C3_Witness ==
    /\ fnOut.op = "stroke"
    /\ fnIn = 180 * Deg
    /\ fnOut.stroke = "COMPRESSION"

\* C4 as stated: across every tick of the running simulation each cylinder's
\* stroke phase stays or moves to the next phase of the cycle, for every
\* speed and every frame time.
C4_NoPhaseSkipped ==
    [][RunningTick
         => \A i \in Cylinders :
              StrokeOf(variant, i, crankAngle') \in
                  {StrokeOf(variant, i, crankAngle),
                   NextPhase(StrokeOf(variant, i, crankAngle))}]_vars

\* C4 amended: across every tick of the running simulation that advances
\* the angle by at most 180 degrees, each cylinder's stroke phase stays or
\* moves to the next phase of the cycle.
C4_NoPhaseSkippedSmallStep ==
    [][(RunningTick /\ TickStep <= 180 * Deg)
         => \A i \in Cylinders :
              StrokeOf(variant, i, crankAngle') \in
                  {StrokeOf(variant, i, crankAngle),
                   NextPhase(StrokeOf(variant, i, crankAngle))}]_vars

C4_Witness ==
    /\ lastTick.kind = "small"
    /\ lastTick.from = "INTAKE"
    /\ StrokeOf(variant, 0, crankAngle) = "COMPRESSION"

\* C5 as stated: the cylinder indices 0, 1, 2, 3 have the offsets
\* 0, 540, 180, 360 degrees of the firing order 1-3-4-2.
C5_FiringOrderOffsets ==
    \A i \in Cylinders : OffsetOf(variant, i) = FiringOrderOffsets[i + 1]

\* C5 amended: in engine_sim.cpp the cylinder indices 0, 1, 2, 3 have the
\* offsets 0, 540, 180, 360 degrees; in part_000, part_001 and part_002 they
\* have the index-order offsets 0, 180, 360, 540.
C5_OffsetsPerVariant ==
    \A i \in Cylinders :
        OffsetOf(variant, i) =
            IF variant = "engine_sim" THEN FiringOrderOffsets[i + 1]
                                      ELSE IndexOrderOffsets[i + 1]

C5_Witness ==
    /\ variant = "engine_sim"
    /\ crankAngle = 30 * Deg
    /\ strokes = [i \in Cylinders |->
                    StrokeOfSum(variant, crankAngle + FiringOrderOffsets[i + 1])]

\* C6 as stated: at crank angle 0 the cylinders 0, 1, 2, 3 report INTAKE,
\* EXHAUST, COMPRESSION, POWER.
C6_PhasesAtZero ==
    crankAngle = 0
        => \A i \in Cylinders :
             StrokeOf(variant, i, crankAngle) = FiringOrderPhases[i + 1]

\* C6 amended: at crank angle 0 the cylinders 0, 1, 2, 3 report INTAKE,
\* EXHAUST, COMPRESSION, POWER in engine_sim.cpp and INTAKE, COMPRESSION,
\* POWER, EXHAUST in part_000, part_001 and part_002.
C6_PhasesAtZeroPerVariant ==
    crankAngle = 0
        => \A i \in Cylinders :
             StrokeOf(variant, i, crankAngle) =
                 IF variant = "engine_sim" THEN FiringOrderPhases[i + 1]
                                           ELSE IndexOrderPhases[i + 1]

C6_Witness ==
    /\ variant = "engine_sim"
    /\ crankAngle = 0
    /\ strokes = [i \in Cylinders |-> FiringOrderPhases[i + 1]]

\* C7: from an angle in [0, 720) and at constant speed, two consecutive
\* ticks with dt1 and dt2 store the same angle as one tick with dt1 + dt2.
C7_TickAdditive ==
    [][(RunningTick /\ 0 <= crankAngle /\ crankAngle < Cycle)
         => \A dt1 \in {d \in ElapsedValues(variant) : d <= FrameDt} :
              crankAngle' =
                  TickAngle(variant,
                            TickAngle(variant, crankAngle, Speed, dt1),
                            Speed, FrameDt - dt1)]_vars

\* C8: in every reachable state a running tick with dt = 0 leaves the crank
\* angle as it was.
C8_ZeroDtIsNoOp ==
    [][(RunningTick /\ FrameDt = 0) => crankAngle' = crankAngle]_vars

\* C9: when the speed is 0, a tick leaves the crank angle unchanged for
\* every elapsed time and every reachable crank angle.
C9_ZeroSpeedIsNoOp ==
    [][(RunningTick /\ Speed = 0) => crankAngle' = crankAngle]_vars

C9_Witness ==
    /\ lastTick.kind = "still"
    /\ crankAngle > 0
    /\ crankSpeedDegPerSec = 0

\* C10: for every input x, negative values and values of 1440 degrees or
\* more included, the wrap the program applies returns a value in [0, 720)
\* and applied again returns the same value.
C10_WrapRangeIdempotent ==
    /\ fnOut.op = "wrap"
         => /\ 0 <= fnOut.angle
            /\ fnOut.angle < Cycle
            /\ TickWrap(variant, fnOut.angle) = fnOut.angle
    /\ fnOut.op = "phasewrap"
         => /\ 0 <= fnOut.angle
            /\ fnOut.angle < Cycle
            /\ PhaseWrap(variant, fnOut.angle) = fnOut.angle

C12_Case ==
    /\ fnOut.op = "advance"
    /\ fnIn.angle = 0
    /\ fnIn.rpm = 600
    /\ fnIn.dt = 100

\* C12: from crank angle 0 at 600 rpm, one tick with dt = 0.1 s advances the
\* angle by 360 degrees and leaves the stored crank angle at 0 (wrapped),
\* with the cylinder of offset 0 back in INTAKE.
C12_HalfCycleTickStoresZero ==
    C12_Case => (fnOut.angle = 0 /\ fnOut.stroke = "INTAKE")

\* C12 as the code has it: the tick stores 360 degrees, and the cylinder of
\* offset 0 is in POWER.
C12_HalfCycleTickStores360 ==
    C12_Case => (fnOut.angle = 360 * Deg /\ fnOut.stroke = "POWER")

C12_Witness == C12_Case /\ fnOut.angle = 360 * Deg

\* C13: within one frame the crank-angle update is finished before any
\* cylinder's phase is computed, and the angle is not modified between the
\* first and the last cylinder: every cylinder of a drawn frame shows the
\* phase of the one stored, updated crank angle.
C13_FrameUsesUpdatedAngle ==
    strokes # NoStrokes
        => \A i \in Cylinders : strokes[i] = StrokeOf(variant, i, crankAngle)

\* a frame of engine_sim whose update moved cylinder 0 into its next phase,
\* drawn with that next phase
C13_Witness ==
    /\ variant = "engine_sim"
    /\ elapsed = 0
    /\ lastTick.kind = "small"
    /\ strokes # NoStrokes
    /\ strokes[0] = NextPhase(lastTick.from)

\* a step that is a tick of a simulation that is not running: a frame of
\* engine_sim whose update sees is_running false (R not pressed), the timer
\* of part_000 and the idle callback of part_001 on the landing page
PausedTick ==
    \/ \E space \in BOOLEAN : MainLoopFrame(space, FALSE) /\ ~is_running'
    \/ timer /\ appState = "LANDING"
    \/ idle /\ appState = "STATE_LANDING"

\* C14: while the simulation is not running (is_running false in
\* engine_sim, appState LANDING in part_000 and part_001) a tick of any
\* elapsed time leaves the crank angle unchanged.
C14_PausedTickKeepsAngle ==
    [][PausedTick => crankAngle' = crankAngle]_vars

\* engine_sim paused after it has run: the last frame skipped the update
\* and the angle the run had reached is still stored
C14_Witness ==
    /\ variant = "engine_sim"
    /\ ~is_running
    /\ elapsed = 0
    /\ lastTick.kind \in {"small", "large"}
    /\ crankAngle > 0

\* C15: in part_001 and part_002, after any sequence of key presses from
\* the initial rpm 250, rpm is at least 80 and at most 3500.
C15_RpmInRange ==
    variant \in {"part_001", "part_002"} => (80 <= rpm /\ rpm <= 3500)

\* 'x' has raised rpm to the upper clamp while the engine view runs
C15_Witness ==
    /\ variant \in {"part_001", "part_002"}
    /\ appState = "STATE_ENGINE"
    /\ rpm = 3500

\* C16: in part_000, after any sequence of key presses (space, 'f', 's',
\* 'm', Enter) in any app state, crankSpeedDegPerSec is never negative.
C16_SpeedNonNegative ==
    variant = "part_000" => crankSpeedDegPerSec >= 0

\* the animation has been slowed to a stop
C16_Witness ==
    /\ variant = "part_000"
    /\ appState = "ANIMATION"
    /\ crankSpeedDegPerSec = 0

\* C17: the cosmetic effects never feed back into the model: an idle
\* callback, whatever smoke it spawns and updates, leaves rpm as it is and
\* stores the crank angle the tick alone gives; drawing the frame (stroke
\* phase, valve lift, flame) leaves crank angle and rpm unchanged.
C17_EffectsDoNotFeedBack ==
    [][ /\ idleSmoke =>
            /\ rpm' = rpm
            /\ crankAngle' = (IF appState = "STATE_ENGINE"
                              THEN idle_update(crankAngle, rpm, TickDt)
                              ELSE crankAngle)
        /\ display => UNCHANGED <<crankAngle, rpm>>
      ]_vars

\* a particle has been spawned and has aged, the crank has turned and the
\* frame has been drawn
C17_Witness ==
    /\ \E i \in Slots : smoke[i].active /\ smoke[i].life < LifeUnit
    /\ lastTick.kind = "large"
    /\ strokes # NoStrokes
    /\ rpm = 250

\* C18: in every variant that uses the exact rod-crank formula the
\* connecting-rod length is strictly greater than the crank radius, and for
\* every angle the argument of the square root is non-negative.
C18_RadicandNonNegative ==
    (fnOut.op = "piston" /\ variant \in RodCrankVariants)
        => /\ RodLengthOf(variant) > CrankRadiusOf(variant)
           /\ fnOut.radicand >= 0
           /\ fnOut.position # NaN

\* the position has been computed at 90 degrees, where sin^2 is 1 and the
\* argument of the square root is least
C18_Witness ==
    /\ fnOut.op = "piston"
    /\ variant \in RodCrankVariants
    /\ fnIn = 90 * Deg
    /\ fnOut.radicand = (RodLengthOf(variant) * RodLengthOf(variant)
                           - CrankRadiusOf(variant) * CrankRadiusOf(variant))
                        * TrigScale * TrigScale

\* C20: the piston position has period 360 degrees: the position computed
\* for theta equals the one computed for theta + 360, and the values at 0,
\* 360 and 720 degrees are equal.
C20_PistonPeriod360 ==
    fnOut.op = "piston"
        => /\ fnOut.position = PistonOf(variant, fnIn + 360 * Deg)
           /\ fnIn = 0 => fnOut.position = PistonOf(variant, 720 * Deg)

\* the position has been computed at an angle where it differs from the
\* one half a revolution later
C20_Witness ==
    /\ fnOut.op = "piston"
    /\ fnIn = 30 * Deg
    /\ fnOut.position # PistonOf(variant, fnIn + 180 * Deg)

\* C21: at every reachable crank angle, not only at 0, the four cylinders
\* are in four pairwise different stroke phases, so exactly one cylinder is
\* in each of INTAKE, COMPRESSION, POWER and EXHAUST, with either offset
\* table.
C21_PhasesPairwiseDifferent ==
    /\ \A i, j \in Cylinders :
           i # j => StrokeOf(variant, i, crankAngle)
                        # StrokeOf(variant, j, crankAngle)
    /\ \A i \in Cylinders :
           StrokeOf(variant, i, crankAngle) \in {Phases[k] : k \in 1 .. 4}

\* a frame drawn after the crank has turned into another phase
C21_Witness ==
    /\ lastTick.kind = "small"
    /\ crankAngle > 0
    /\ strokes # NoStrokes
    /\ strokes[0] # "INTAKE"

\* the active particles of a pool
ActiveSlots(pool) == {i \in Slots : pool[i].active}

\* C22: the smoke pool is bounded and spawn is safe when full: after any
\* sequence of spawnSmoke and updateSmoke calls the number of active
\* particles is at most the size of the pool; spawnSmoke on a pool with a
\* free slot activates exactly the lowest-index inactive slot and changes no
\* other slot; spawnSmoke on a full pool changes nothing.
C22_SpawnBoundedAndSafe ==
    /\ Cardinality(ActiveSlots(smoke)) <= PoolSize
    /\ fnOut.op = "spawn" =>
         LET free == Slots \ ActiveSlots(fnOut.before)
         IN  IF free = {}
             THEN smoke = fnOut.before
             ELSE \E i \in free :
                     /\ \A k \in free : i <= k
                     /\ smoke[i].active
                     /\ ActiveSlots(smoke) = ActiveSlots(fnOut.before) \cup {i}
                     /\ \A j \in Slots \ {i} : smoke[j] = fnOut.before[j]

\* spawnSmoke has been called on a full pool whose particles have aged
C22_Witness ==
    /\ fnOut.op = "spawn"
    /\ ActiveSlots(fnOut.before) = Slots
    /\ smoke = fnOut.before
    /\ \E i \in Slots : smoke[i].life < LifeUnit

\* C23: every smoke particle is eventually released: an active particle has
\* life in (0, 1] after each updateSmoke, its life strictly decreases on
\* every update with dt > 0, and after enough such updates it becomes
\* inactive and its slot can be reused by spawnSmoke.
C23_ParticleReleased ==
    /\ [](\A i \in Slots :
            /\ smoke[i].active
                 => (0 < smoke[i].life /\ smoke[i].life <= LifeUnit)
            /\ (fnOut.op = "update" /\ fnOut.dt > 0 /\ fnOut.before[i].active)
                 => smoke[i].life < fnOut.before[i].life
            /\ (~smoke[i].active /\ \A k \in Slots : k < i => smoke[k].active)
                 => spawnSmoke(smoke)[i] = [active |-> TRUE,
                                            life |-> LifeUnit])
    /\ \A i \in Slots : smoke[i].active ~> ~smoke[i].active

\* an update with dt > 0 has just released a particle that had aged
C23_Witness ==
    /\ fnOut.op = "update"
    /\ fnOut.dt > 0
    /\ \E i \in Slots :
          /\ fnOut.before[i].active
          /\ fnOut.before[i].life < LifeUnit
          /\ ~smoke[i].active

\* the first running tick after a switch from the landing page
FirstTickAfterSwitch == RunningTick /\ switched.since >= 0

\* C24: time spent on the landing page never advances the engine: the first
\* tick after the app has entered the animation state (first start, or in
\* part_000 after 'm' and a new start) advances the crank angle by the time
\* elapsed since the switch and by nothing of the time before it.
C24_LandingTimeNotCounted ==
    [][FirstTickAfterSwitch =>
          /\ FrameDt <= switched.since
          /\ ~lastZero => FrameDt = switched.since
          /\ crankAngle' = TickAngle(variant, crankAngle, Speed, FrameDt)
      ]_vars

\* part_000 restarted after 'm' with the stored last-time value behind the
\* clock: the first tick has advanced the crank by the time since the switch
C24_Witness ==
    /\ variant = "part_000"
    /\ appState = "ANIMATION"
    /\ switched.stale
    /\ switched.first > 0
    /\ lastTick.kind \in {"small", "large"}

\* C25: in part_000 the app state changes only as the landing text says:
\* from LANDING it becomes ANIMATION exactly on Enter or on a left-button
\* press inside the Start button; from ANIMATION it becomes LANDING exactly
\* on 'm' or 'M'; every other key, click or timer tick leaves it unchanged.
C25_AppStateTransitions ==
    /\ [](variant = "part_000" =>
            \A key \in KeysPart000 :
               LET st == keyboard_appState(key, appState)
               IN  IF appState = "LANDING"
                   THEN /\ st = "ANIMATION" <=> key \in {"\r", "\n"}
                        /\ st \in {"LANDING", "ANIMATION"}
                   ELSE /\ st = "LANDING" <=> key \in {"m", "M"}
                        /\ st \in {"LANDING", "ANIMATION"})
    /\ [][variant = "part_000" =>
            /\ \A leftDown, inside \in BOOLEAN :
                  mouseClick(leftDown, inside) =>
                     IF appState = "LANDING" /\ leftDown /\ inside
                     THEN appState' = "ANIMATION"
                     ELSE appState' = appState
            /\ appState' # appState =>
                  \/ \E key \in KeysPart000 : keyboard000(key)
                  \/ mouseClick(TRUE, TRUE)
         ]_vars

\* the animation has run and 'm' has brought the landing page back
C25_Witness ==
    /\ variant = "part_000"
    /\ appState = "LANDING"
    /\ crankAngle > 0

\* C26: in part_000, in the animation state, Space toggles between running
\* and paused: a speed above 0 becomes 0 and a speed of 0 becomes positive,
\* for every speed reachable through 'f', 's' and Space; in the landing
\* state no step (Space, 'f' and 's' included) changes the speed.
C26_SpaceToggles ==
    /\ [](variant = "part_000" /\ appState = "ANIMATION" =>
            /\ crankSpeedDegPerSec > 0 =>
                  keyboard_speed(" ", crankSpeedDegPerSec) = 0
            /\ crankSpeedDegPerSec = 0 =>
                  keyboard_speed(" ", crankSpeedDegPerSec) > 0)
    /\ [][variant = "part_000" /\ appState = "LANDING" =>
            crankSpeedDegPerSec' = crankSpeedDegPerSec]_vars

\* the engine has turned and stands paused in the animation view
C26_Witness ==
    /\ variant = "part_000"
    /\ appState = "ANIMATION"
    /\ crankSpeedDegPerSec = 0
    /\ crankAngle > 0

\* ------------------------------------ part_001 with direct calls of the start
\* part_001 from its start, with startEngineSimulation also called directly
\* in whatever state the program is in
StartInit ==
    /\ Init
    /\ variant = "part_001"

CallStartEngineSimulation ==
    /\ variant = "part_001"
    /\ startEngineSimulation
    /\ UNCHANGED <<variant, crankAngle, rpm, crankSpeedDegPerSec, is_running,
                   nowZero, strokes, lastTick, fnIn, fnOut, smoke>>

StartNext ==
    \/ Clock
    \/ \E key \in KeysPart001 : keyboard001(key)
    \/ \E leftDown, inside \in BOOLEAN : mouse001(leftDown, inside)
    \/ idle
    \/ display
    \/ CallStartEngineSimulation

SpecStart == StartInit /\ [][StartNext]_vars

\* C27: in part_001 starting the engine is one-way and idempotent: once
\* appState is STATE_ENGINE no key, click or idle tick returns it to
\* STATE_LANDING, and a further call of startEngineSimulation changes neither
\* appState nor lastTimeMs (elapsed, lastZero) nor the record of the switch,
\* which is written in the branch that starts the sound.
C27_StartOneWayIdempotent ==
    [][variant = "part_001" /\ appState = "STATE_ENGINE" =>
          /\ appState' = "STATE_ENGINE"
          /\ CallStartEngineSimulation =>
                UNCHANGED <<appState, elapsed, lastZero, switched>>
      ]_vars

\* the engine view runs and the clock has moved on since lastTimeMs was
\* stored: a second stamp would be seen
C27_Witness ==
    /\ variant = "part_001"
    /\ appState = "STATE_ENGINE"
    /\ elapsed > 0
    /\ ~lastZero
    /\ crankAngle > 0

\* C28: in engine_sim a frame in which R is seen pressed sets the crank angle
\* to 0 and is_running to false, whatever the angle and the flag before and
\* whether or not Space is pressed in the same frame: the angle is still 0
\* after the frame's update step.
C28_ResetFrame ==
    [][\A space \in BOOLEAN :
          MainLoopFrame(space, TRUE) =>
             /\ crankAngle' = 0
             /\ is_running' = FALSE
             /\ processInput(space, TRUE, crankAngle, is_running)
                   = [angle |-> 0, running |-> FALSE]
      ]_vars

\* R was seen while cylinder 0 was past its intake stroke: the angle is back
\* at 0 and the engine is stopped
C28_Witness ==
    /\ variant = "engine_sim"
    /\ lastTick.kind = "reset"
    /\ lastTick.from # "INTAKE"
    /\ crankAngle = 0
    /\ ~is_running

\* the local angle of cylinder i and the phase its 180-degree range stands for
LocalAngle(i) == crankAngle + cylPhase(i)
PhaseOfLocal(i) == Phases[(Wrap720(LocalAngle(i)) \div (180 * Deg)) + 1]

\* C29: in part_001 and part_002, for every cylinder and every reachable
\* crank angle, the intake valve is lifted exactly when the cylinder's phase
\* is INTAKE, the exhaust valve exactly when it is EXHAUST, the flame is
\* drawn exactly when it is POWER, and the two valves are never lifted at
\* the same time.
C29_ValvesAndFlameFollowPhase ==
    variant \in {"part_001", "part_002"} =>
        \A i \in Cylinders :
           LET v == getValveStates(LocalAngle(i))
           IN  /\ v.intakeLift = 1 <=> PhaseOfLocal(i) = "INTAKE"
               /\ v.exhaustLift = 1 <=> PhaseOfLocal(i) = "EXHAUST"
               /\ flameDrawn(LocalAngle(i)) <=> PhaseOfLocal(i) = "POWER"
               /\ v.intakeLift \in {0, 1} /\ v.exhaustLift \in {0, 1}
               /\ ~(v.intakeLift = 1 /\ v.exhaustLift = 1)

\* the engine view is drawn at a stored angle of one cycle or more: cylinder
\* 0 has its intake valve lifted, cylinder 2 its flame drawn and cylinder 3
\* its exhaust valve lifted
C29_Witness ==
    /\ variant \in {"part_001", "part_002"}
    /\ appState = "STATE_ENGINE"
    /\ strokes # NoStrokes
    /\ crankAngle >= Cycle
    /\ getValveStates(LocalAngle(0)).intakeLift = 1
    /\ flameDrawn(LocalAngle(2))
    /\ getValveStates(LocalAngle(3)).exhaustLift = 1

====
